---- MODULE Spec2Model ----
(***************************************************************************)
(* EdgeDeploy dashboard (src/App.tsx): the deployment trigger-and-poll     *)
(* state machine of the App component, together with the repository /     *)
(* branch selection state it depends on.                                   *)
(*                                                                         *)
(* React state is the committed value of each useState cell; refs are      *)
(* plain mutable cells.  Every handler is split at its awaits: the code    *)
(* between two awaits is one action, and the asynchronous execution that   *)
(* is suspended at an await (or a pending setTimeout) is an element of the *)
(* bag `tasks`.  A handler or callback reads the useState values of the    *)
(* render in which it was created, so each task and each interval timer    *)
(* carries the values it captured (repo, branch, status, baseline).        *)
(***************************************************************************)
EXTENDS Integers, Sequences, FiniteSets, Bags, TLC

\* ---------------------------------------------------------------- bounds
MaxDeploys == 2     \* clicks on Deploy
MaxSelects == 2     \* other user events (repository change, logo)
MaxTasks  == 2      \* suspended asynchronous executions at a time
MaxRunId  == 2      \* workflow runs the remote side ever creates
MaxAttempts == 5    \* poll attempts followed from a fresh session

\* ------------------------------------------------------ program constants
HardCeiling       == 60   \* pollAttempts.current > 60
NoWorkflowCeiling == 4    \* pollAttempts.current > 4

\* ------------------------------------------------------------ null values
NULL  == "null"     \* null of a string-valued cell
NoRun == 0          \* null of a run id / sha / url cell

Repos == {"A", "B"}

\* Branch listing of each repository, as fetchBranches returns it.
BranchesOf(r) == IF r = "A" THEN <<"dev", "main">> ELSE <<"master", "dev">>

\* GithubRepo: the id and the full name of a repository of the account.
RepoId(r) == IF r = "A" THEN 1 ELSE 2
GithubRepo(r) == [id |-> RepoId(r), full_name |-> r]

\* edgedeploy_projects of localStorage when both repositories were imported.
AllProjects == << GithubRepo("A"), GithubRepo("B") >>

\* Run record of the remote listing; head_sha is the commit the run built.
HeadSha(id) == id + 10

MkRun(id, r, b, st, c) ==
    [id |-> id, repo |-> r, branch |-> b, status |-> st, conclusion |-> c,
     head_sha |-> HeadSha(id)]

NoRelevant == MkRun(NoRun, NULL, NULL, NULL, NULL)

\* Value of the history variable lastPoll after a step that evaluated no
\* run list and in which no poll request failed.
NoPoll == [sess |-> 0, rec |-> NoRun, baseline |-> NoRun, ids |-> << >>,
           picked |-> NoRun, attempts |-> 0, ev |-> "none", jobs |-> << >>,
           outcome |-> "none"]

VARIABLES
    githubToken,          \* useState: BOOLEAN, a token is stored
    user,                 \* useState: BOOLEAN, the token was verified
    storedToken,          \* localStorage github_token: BOOLEAN, present
    projects,             \* useState: the imported repositories, in order
    selectedRepo,         \* useState: repository name or NULL
    repo,                 \* useState owner + repo (always set together)
    selectedBranch,       \* useState
    deploymentStatus,     \* useState
    workflowRuns,         \* useState: the run list shown
    deploymentLogs,       \* useState: sequence of log chunks, << >> is null
    liveDeploymentUrl,    \* useState: NoRun is null, else the url of a sha
    lastKnownRunId,       \* useState: NoRun is null
    error,                \* useState
    pollAttempts,         \* useRef
    deploymentPollTimer,  \* useRef: id of an interval or NoRun
    intervals,            \* live window.setInterval timers with their closure
    nextTimer,            \* next interval id handed out by the browser
    tasks,                \* bag of suspended executions and pending timeouts
    serverRuns,           \* remote: all runs, newest first
    pendingDispatch,      \* remote: accepted dispatches not yet materialized
    deployed,             \* remote: shas with a successful pages deployment
    clicks,               \* user events other than Deploy so far
    lastPoll,             \* history: what the latest run-list evaluation saw
    calls                 \* history: per handleDeploy run, the requests it
                          \* issued and whether one of its polls failed

vars == <<githubToken, user, storedToken, projects, selectedRepo, repo,
          selectedBranch,
          deploymentStatus, workflowRuns, deploymentLogs, liveDeploymentUrl,
          lastKnownRunId, error, pollAttempts, deploymentPollTimer, intervals,
          nextTimer, tasks, serverRuns, pendingDispatch, deployed, clicks,
          lastPoll, calls>>

uiVars     == <<githubToken, user, storedToken, projects, selectedRepo, repo,
               selectedBranch>>
deployVars == <<deploymentStatus, workflowRuns, deploymentLogs,
                liveDeploymentUrl, lastKnownRunId, error>>
timerVars  == <<pollAttempts, deploymentPollTimer, intervals, nextTimer>>
remoteVars == <<serverRuns, pendingDispatch, deployed>>

\* ------------------------------------------------------- pure functions

\* Array.prototype.find with the predicate of pollDeploymentStatus:
\* the first run, in array order, that is newer than the baseline.
RECURSIVE FindNewer(_, _, _)
FindNewer(list, b, i) ==
    IF i > Len(list) THEN NoRelevant
    ELSE IF b = NoRun \/ list[i].id > b THEN list[i]
    ELSE FindNewer(list, b, i + 1)

\* Variants of the find used to probe the properties: one that starts at
\* the second element, one that compares with >=.
RelevantRunSkipFirst(list, b) == FindNewer(list, b, 2)

RECURSIVE FindNewerInclusive(_, _, _)
FindNewerInclusive(list, b, i) ==
    IF i > Len(list) THEN NoRelevant
    ELSE IF b = NoRun \/ list[i].id >= b THEN list[i]
    ELSE FindNewerInclusive(list, b, i + 1)

RelevantRunInclusive(list, b) == FindNewerInclusive(list, b, 1)

RelevantRun(list, b) == FindNewer(list, b, 1)

\* fetchedBranches.find(main) || fetchedBranches.find(master) || [0]
PickBranch(bs) ==
    IF \E i \in 1..Len(bs) : bs[i] = "main" THEN "main"
    ELSE IF \E i \in 1..Len(bs) : bs[i] = "master" THEN "master"
    ELSE bs[1]

\* getWorkflowRuns: the runs of one branch of one repository, newest first.
GetWorkflowRuns(r, b) ==
    SelectSeq(serverRuns, LAMBDA x : x.repo = r /\ x.branch = b)

\* The github-pages deployments the provider lists for commit sha of
\* repository r: one, with one success status carrying the site's url, once
\* the deployment is registered.
UrlOf(sha) == sha
DeploymentsOf(r, sha) ==
    IF \E x \in deployed : x.repo = r /\ x.sha = sha
    THEN << [created_at |-> 1,
             statuses |-> << [state |-> "success",
                              environment_url |-> UrlOf(sha)] >>] >>
    ELSE << >>

\* deployments.sort((a, b) => b.created_at - a.created_at)[0]: the sort is
\* stable, so of the deployments created last the one listed first.
LatestDeployment(deployments) ==
    deployments[CHOOSE i \in 1..Len(deployments) :
        /\ \A j \in 1..Len(deployments) :
              deployments[j].created_at <= deployments[i].created_at
        /\ \A j \in 1..(i - 1) :
              deployments[j].created_at < deployments[i].created_at]

\* statuses.find(s => s.state === 'success')?.environment_url || null
RECURSIVE FindSuccessStatus(_, _)
FindSuccessStatus(statuses, i) ==
    IF i > Len(statuses) THEN NoRun
    ELSE IF statuses[i].state = "success" THEN statuses[i].environment_url
    ELSE FindSuccessStatus(statuses, i + 1)

\* How the two requests of the resolver end: both answered with 200, one
\* answered with another status, or one failed (fetch or handleResponse
\* threw, which the resolver catches).
ResolverOutcomes == {"answered", "non200", "throws"}

\* Variant of the resolver that uses the listing however the requests end.
GetUrlWhateverOutcome(outcome, deployments) ==
    IF deployments = << >> THEN NoRun
    ELSE FindSuccessStatus(LatestDeployment(deployments).statuses, 1)

\* getLatestSuccessDeploymentUrl
GetLatestSuccessDeploymentUrl(outcome, deployments) ==
    IF outcome # "answered" \/ deployments = << >> THEN NoRun
    ELSE FindSuccessStatus(LatestDeployment(deployments).statuses, 1)

\* Variant of prev || text that always takes the new text.
OrElseText(prev, text) == text

\* prev || text
OrElse(prev, text) == IF prev = << >> THEN text ELSE prev

\* The attempt counter is followed over its first MaxAttempts values and
\* over its last values before and at the hard ceiling.
AttemptInRange ==
    pollAttempts < MaxAttempts \/ pollAttempts \in (HardCeiling - 3)..HardCeiling

\* ------------------------------------------------- request wrappers

\* An HTTP response as the wrappers look at it: the status, the kind of
\* body (a JSON document, a JSON object with a message field, text that is
\* not JSON, or nothing) and whether the header Content-Length is '0'.
Statuses == {200, 202, 204, 401, 403, 404, 500}
Bodies   == {"json", "jsonMessage", "text", "none"}
Response(st, body, len0) == [status |-> st, body |-> body, len0 |-> len0]

Responses ==
    {r \in [status : Statuses, body : Bodies, len0 : BOOLEAN] :
        /\ r.len0 => r.body = "none"
        /\ r.status = 204 => r.body = "none"}

\* response.ok
Ok(r) == r.status >= 200 /\ r.status <= 299

\* The message field of an error body, as the provider sets it.
ProviderMessage(st) == IF st = 401 THEN "Bad credentials" ELSE "Request failed"

\* Results of a wrapper: a value, null, nothing (void), or a thrown Error.
NoMsg       == [text |-> "", status |-> 0]
Returns(v)  == [kind |-> "value", v |-> v, msg |-> NoMsg]
ReturnsNull == [kind |-> "null", v |-> "", msg |-> NoMsg]
ReturnsVoid == [kind |-> "void", v |-> "", msg |-> NoMsg]
Throws(text, st) == [kind |-> "error", v |-> "",
                     msg |-> [text |-> text, status |-> st]]

\* response.json(): the parsed document, or a SyntaxError.
IsJson(r) == r.body \in {"json", "jsonMessage"}
SyntaxError == Throws("SyntaxError", 0)

\* Variant of handleResponse without the 401 test.
HandleResponseNo401(r) ==
    IF ~ Ok(r)
    THEN IF ~ IsJson(r) THEN SyntaxError
         ELSE IF r.body = "jsonMessage"
              THEN Throws(ProviderMessage(r.status), 0)
              ELSE Throws("API request failed with status", r.status)
    ELSE IF r.len0 \/ r.status = 204 THEN ReturnsNull
    ELSE IF IsJson(r) THEN Returns(r.body) ELSE SyntaxError

\* handleResponse
HandleResponse(r) ==
    IF ~ Ok(r)
    THEN IF r.status = 401 THEN Throws("Unauthorized: Invalid GitHub token.", 0)
         ELSE IF ~ IsJson(r) THEN SyntaxError
         ELSE IF r.body = "jsonMessage"
              THEN Throws(ProviderMessage(r.status), 0)
              ELSE Throws("API request failed with status", r.status)
    ELSE IF r.len0 \/ r.status = 204 THEN ReturnsNull
    ELSE IF IsJson(r) THEN Returns(r.body) ELSE SyntaxError

\* triggerDeployment: response.json().catch(() => ({})) never throws.
TriggerDeployment(r) ==
    IF ~ Ok(r)
    THEN IF r.body = "jsonMessage" THEN Throws(ProviderMessage(r.status), 0)
         ELSE Throws("Failed to trigger workflow.", 0)
    ELSE ReturnsVoid

\* getJobLogs: the raw text of the body.
GetJobLogs(r) ==
    IF ~ Ok(r) THEN Throws("Failed to fetch logs with status", r.status)
    ELSE Returns(IF r.body = "none" THEN "" ELSE r.body)

Wrappers == {"handleResponse", "triggerDeployment", "getJobLogs"}

Wrapper(w, r) ==
    CASE w = "handleResponse"    -> HandleResponse(r)
      [] w = "triggerDeployment" -> TriggerDeployment(r)
      [] w = "getJobLogs"        -> GetJobLogs(r)

\* Failing responses the requests of the dashboard are answered with.
FailedResponses == {Response(401, "jsonMessage", FALSE),
                    Response(500, "jsonMessage", FALSE)}

\* ------------------------------------------------------------- tasks
Task(k, cl, runId, sha, target) ==
    [k |-> k, repo |-> cl.repo, branch |-> cl.branch, status |-> cl.status,
     baseline |-> cl.baseline, rec |-> cl.rec, sess |-> cl.sess,
     runId |-> runId, sha |-> sha, target |-> target]

Closure(t) ==
    [repo |-> t.repo, branch |-> t.branch, status |-> t.status,
     baseline |-> t.baseline, rec |-> t.rec, sess |-> t.sess]

Spawn(bag, t) == bag (+) SetToBag({t})
Retire(bag, t) == bag (-) SetToBag({t})
InFlight == BagCardinality(tasks)

\* Closure of a handler that reads only owner/repo (selection handlers).
SelClosure(r) ==
    [repo |-> r, branch |-> NULL, status |-> NULL, baseline |-> NoRun,
     rec |-> NoRun, sess |-> 0]

\* Messages of the errors a request through handleResponse throws, and of
\* those triggerDeployment throws.
FetchErrors    == {HandleResponse(r).msg.text : r \in FailedResponses}
DispatchErrors == {TriggerDeployment(r).msg.text : r \in FailedResponses}

LoggedIn == githubToken /\ user

\* ---------------------------------------------------------------- Init
Init ==
    \* localStorage holds a token and, possibly, the last selected repository
    /\ githubToken = TRUE
    /\ storedToken = TRUE
    /\ user = FALSE
    /\ projects = AllProjects
    /\ selectedRepo \in {NULL} \cup Repos
    /\ repo = NULL
    /\ selectedBranch = NULL
    /\ deploymentStatus = "IDLE"
    /\ workflowRuns = << >>
    /\ deploymentLogs = << >>
    /\ liveDeploymentUrl = NoRun
    /\ lastKnownRunId = NoRun
    /\ error = NULL
    /\ pollAttempts = 0
    /\ deploymentPollTimer = NoRun
    /\ intervals = {}
    /\ nextTimer = 1
    \* mount effect: if (githubToken && !user) handleConnect(githubToken)
    /\ tasks = SetToBag({Task("auth", SelClosure(NULL), NoRun, NoRun, NULL)})
    /\ serverRuns = << MkRun(1, "A", "main", "completed", "success") >>
    /\ pendingDispatch = EmptyBag
    /\ deployed = {[repo |-> "A", sha |-> HeadSha(1)]}
    /\ clicks = 0
    /\ lastPoll = NoPoll
    /\ calls = << >>

\* ------------------------------------------------------- remote side

\* An accepted dispatch becomes a queued run with the next run id.
Materialize(d) ==
    /\ BagIn(d, pendingDispatch)
    /\ Len(serverRuns) < MaxRunId
    /\ pendingDispatch' = pendingDispatch (-) SetToBag({d})
    /\ serverRuns' = << MkRun(Len(serverRuns) + 1, d.repo, d.branch,
                              "queued", NULL) >> \o serverRuns
    /\ UNCHANGED <<uiVars, deployVars, timerVars, tasks, deployed, clicks, calls>>
    /\ lastPoll' = NoPoll

\* A run advances: queued -> in_progress -> completed(success | failure).
Advance(i) ==
    /\ i \in 1..Len(serverRuns)
    /\ \/ /\ serverRuns[i].status = "queued"
          /\ serverRuns' = [serverRuns EXCEPT ![i].status = "in_progress"]
       \/ /\ serverRuns[i].status = "in_progress"
          /\ \E c \in {"success", "failure"} :
                serverRuns' = [serverRuns EXCEPT ![i].status = "completed",
                                                 ![i].conclusion = c]
    /\ UNCHANGED <<uiVars, deployVars, timerVars, tasks, pendingDispatch,
                   deployed, clicks, calls>>
    /\ lastPoll' = NoPoll

\* The pages deployment of a successful run is registered (with some lag).
RegisterDeployment(i) ==
    /\ i \in 1..Len(serverRuns)
    /\ serverRuns[i].status = "completed"
    /\ serverRuns[i].conclusion = "success"
    /\ [repo |-> serverRuns[i].repo, sha |-> serverRuns[i].head_sha] \notin deployed
    /\ deployed' = deployed \cup
                     {[repo |-> serverRuns[i].repo, sha |-> serverRuns[i].head_sha]}
    /\ UNCHANGED <<uiVars, deployVars, timerVars, tasks, serverRuns,
                   pendingDispatch, clicks, calls>>
    /\ lastPoll' = NoPoll

\* ------------------------------------------------- login and selection

\* handleConnect after fetchUser; on success the [user, githubToken] effect
\* runs (user is a new object) and starts fetchRepos.
AuthDone(t) ==
    /\ BagIn(t, tasks) /\ t.k = "auth"
    /\ \/ /\ user' = TRUE
          /\ githubToken' = TRUE
          /\ storedToken' = TRUE
          /\ tasks' = Spawn(Retire(tasks, t),
                            Task("repos", SelClosure(repo), NoRun, NoRun, NULL))
          /\ UNCHANGED error
       \/ /\ \E e \in FetchErrors : error' = e
          /\ tasks' = Retire(tasks, t)
          /\ storedToken' = FALSE
          /\ UNCHANGED <<user, githubToken>>
    /\ UNCHANGED <<projects, selectedRepo, repo, selectedBranch,
                   deploymentStatus, workflowRuns, deploymentLogs,
                   liveDeploymentUrl, lastKnownRunId, timerVars, remoteVars,
                   clicks, calls>>
    /\ lastPoll' = NoPoll

\* handleRepoChange up to its await, called from a render whose owner/repo
\* state is closRepo.
HandleRepoChange(target, closRepo, baseTasks) ==
    /\ selectedRepo' = target
    /\ repo' = target
    /\ deploymentStatus' = "IDLE"
    /\ workflowRuns' = << >>
    /\ liveDeploymentUrl' = NoRun
    /\ deploymentLogs' = << >>
    /\ tasks' = Spawn(baseTasks,
                      Task("branches", SelClosure(closRepo), NoRun, NoRun, target))

\* The fetchRepos effect resolves: reopen the stored selection, if any.
ReposDone(t) ==
    /\ BagIn(t, tasks) /\ t.k = "repos"
    /\ \/ /\ selectedRepo # NULL
          /\ HandleRepoChange(selectedRepo, t.repo, Retire(tasks, t))
          /\ UNCHANGED error
       \/ /\ selectedRepo = NULL
          /\ tasks' = Retire(tasks, t)
          /\ UNCHANGED <<selectedRepo, repo, deploymentStatus, workflowRuns,
                         liveDeploymentUrl, deploymentLogs, error>>
       \/ /\ \E e \in FetchErrors : error' = e
          /\ tasks' = Retire(tasks, t)
          /\ UNCHANGED <<selectedRepo, repo, deploymentStatus, workflowRuns,
                         liveDeploymentUrl, deploymentLogs>>
    /\ UNCHANGED <<githubToken, user, storedToken, projects, selectedBranch,
                   lastKnownRunId,
                   timerVars, remoteVars, clicks, calls>>
    /\ lastPoll' = NoPoll

\* The user picks a project: a card of the dashboard, or another entry of
\* the header's <select> (onChange fires only for a different entry).
RepoChangeClick(target) ==
    /\ LoggedIn
    /\ target \in Repos
    /\ selectedRepo = NULL \/ target # selectedRepo
    /\ clicks < MaxSelects
    /\ InFlight < MaxTasks
    /\ clicks' = clicks + 1
    /\ HandleRepoChange(target, repo, tasks)
    /\ UNCHANGED <<githubToken, user, storedToken, projects, selectedBranch,
                   lastKnownRunId, error,
                   timerVars, remoteVars, calls>>
    /\ lastPoll' = NoPoll

\* handleBranchChange up to its first await, from a render whose owner/repo
\* state is closRepo; a null owner (or repo) makes it return at once.
HandleBranchChange(name, target, closRepo, baseTasks) ==
    IF closRepo = NULL
    THEN /\ tasks' = baseTasks
         /\ UNCHANGED <<selectedBranch, liveDeploymentUrl, deploymentLogs, error>>
    ELSE /\ selectedBranch' = name
         /\ liveDeploymentUrl' = NoRun
         /\ deploymentLogs' = << >>
         /\ error' = NULL
         /\ tasks' = Spawn(baseTasks,
                           [Task("tree", SelClosure(closRepo), NoRun, NoRun, target)
                              EXCEPT !.branch = name])

\* handleRepoChange after fetchBranches.
BranchesDone(t) ==
    /\ BagIn(t, tasks) /\ t.k = "branches"
    /\ \/ LET bs == BranchesOf(t.target) IN
          IF Len(bs) > 0
          THEN HandleBranchChange(PickBranch(bs), t.target, t.repo, Retire(tasks, t))
          ELSE /\ selectedBranch' = NULL
               /\ tasks' = Retire(tasks, t)
               /\ UNCHANGED <<liveDeploymentUrl, deploymentLogs, error>>
       \/ /\ \E e \in FetchErrors : error' = e
          /\ tasks' = Retire(tasks, t)
          /\ UNCHANGED <<selectedBranch, liveDeploymentUrl, deploymentLogs>>
    /\ UNCHANGED <<githubToken, user, storedToken, projects, selectedRepo, repo,
                   deploymentStatus,
                   workflowRuns, lastKnownRunId, timerVars, remoteVars, clicks, calls>>
    /\ lastPoll' = NoPoll

\* handleBranchChange after fetchFileTree.
TreeDone(t) ==
    /\ BagIn(t, tasks) /\ t.k = "tree"
    /\ \/ /\ tasks' = Spawn(Retire(tasks, t), [t EXCEPT !.k = "branchRuns"])
          /\ UNCHANGED error
       \/ /\ \E e \in FetchErrors : error' = e
          /\ tasks' = Retire(tasks, t)
    /\ UNCHANGED <<uiVars, deploymentStatus, workflowRuns, deploymentLogs,
                   liveDeploymentUrl, lastKnownRunId, timerVars, remoteVars,
                   clicks, calls>>
    /\ lastPoll' = NoPoll

\* runsData.workflow_runs.find(r => r.conclusion === 'success')
RECURSIVE FindSuccess(_, _)
FindSuccess(list, i) ==
    IF i > Len(list) THEN NoRelevant
    ELSE IF list[i].conclusion = "success" THEN list[i]
    ELSE FindSuccess(list, i + 1)

\* handleBranchChange after getWorkflowRuns: the listing is that of the
\* arguments (target), the url lookup that of the closure's owner/repo.
BranchRunsDone(t) ==
    /\ BagIn(t, tasks) /\ t.k = "branchRuns"
    /\ \/ LET list == GetWorkflowRuns(t.target, t.branch)
              latestSuccess == FindSuccess(list, 1)
          IN  /\ workflowRuns' = list
              /\ IF latestSuccess # NoRelevant
                 THEN /\ tasks' = Spawn(Retire(tasks, t),
                                   [t EXCEPT !.k = "branchUrl",
                                             !.sha = latestSuccess.head_sha])
                      /\ UNCHANGED liveDeploymentUrl
                 ELSE /\ tasks' = Retire(tasks, t)
                      /\ liveDeploymentUrl' = NoRun
              /\ UNCHANGED error
       \/ /\ \E e \in FetchErrors : error' = e
          /\ tasks' = Retire(tasks, t)
          /\ UNCHANGED <<workflowRuns, liveDeploymentUrl>>
    /\ UNCHANGED <<uiVars, deploymentStatus, deploymentLogs, lastKnownRunId,
                   timerVars, remoteVars, clicks, calls>>
    /\ lastPoll' = NoPoll

\* handleBranchChange after getLatestSuccessDeploymentUrl (never throws).
BranchUrlDone(t) ==
    /\ BagIn(t, tasks) /\ t.k = "branchUrl"
    /\ \E outcome \in ResolverOutcomes :
          liveDeploymentUrl' = GetLatestSuccessDeploymentUrl(outcome,
                                   DeploymentsOf(t.repo, t.sha))
    /\ tasks' = Retire(tasks, t)
    /\ UNCHANGED <<uiVars, deploymentStatus, workflowRuns, deploymentLogs,
                   lastKnownRunId, error, timerVars, remoteVars, clicks, calls>>
    /\ lastPoll' = NoPoll

\* Header logo: back to the project list.
LogoClick ==
    /\ LoggedIn
    /\ selectedRepo # NULL
    /\ clicks < MaxSelects
    /\ clicks' = clicks + 1
    /\ selectedRepo' = NULL
    /\ UNCHANGED <<githubToken, user, storedToken, projects, repo,
                   selectedBranch, deployVars,
                   timerVars, tasks, remoteVars, calls>>
    /\ lastPoll' = NoPoll

\* handleLogout: neither the error nor the timers are touched.
Logout ==
    /\ LoggedIn
    /\ clicks < MaxSelects
    /\ clicks' = clicks + 1
    /\ storedToken' = FALSE
    /\ githubToken' = FALSE
    /\ user' = FALSE
    /\ selectedRepo' = NULL
    /\ UNCHANGED <<projects, repo, selectedBranch, deployVars, timerVars,
                   tasks, remoteVars, calls>>
    /\ lastPoll' = NoPoll

\* AuthScreen's form (its button is disabled while the verification of a
\* token is pending): handleConnect up to its await.
ConnectClick ==
    /\ ~ LoggedIn
    /\ ~ \E t \in BagToSet(tasks) : t.k = "auth"
    /\ clicks < MaxSelects
    /\ InFlight < MaxTasks
    /\ clicks' = clicks + 1
    /\ error' = NULL
    /\ tasks' = Spawn(tasks, Task("auth", SelClosure(repo), NoRun, NoRun, NULL))
    /\ UNCHANGED <<uiVars, deploymentStatus, workflowRuns, deploymentLogs,
                   liveDeploymentUrl, lastKnownRunId, timerVars, remoteVars,
                   calls>>
    /\ lastPoll' = NoPoll

\* ------------------------------------------------------------ rendering

\* if (!githubToken || !user) return <AuthScreen ... error={error} />
ShowsAuthScreen == ~ githubToken \/ ~ user

\* AuthScreen: {error && <div ...>{error}</div>}
ShowsAuthError == ShowsAuthScreen /\ error # NULL

\* Dashboard: {error && error !== "NO_WORKFLOW_DETECTED" && <div>Error: ...}
ShowsErrorBanner ==
    ~ ShowsAuthScreen /\ error # NULL /\ error # "NO_WORKFLOW_DETECTED"

\* The raw text of the error is on screen.
ShowsRawError == ShowsAuthError \/ ShowsErrorBanner

\* currentView
Views == {"DEPLOYMENTS", "SOURCE", "SETTINGS"}

\* DeploymentsView, rendered for a selected repository when the current
\* view is the deployments view:
\* {error === "NO_WORKFLOW_DETECTED" && <WorkflowInstructions />}
ShowsWorkflowInstructions(view) ==
    /\ ~ ShowsAuthScreen
    /\ selectedRepo # NULL
    /\ view = "DEPLOYMENTS"
    /\ error = "NO_WORKFLOW_DETECTED"

\* ------------------------------------------------------ deploy and poll

isDeploying == deploymentStatus \in {"TRIGGERED", "IN_PROGRESS"}

\* cleanupPolling: clear the interval the ref holds, if any.
CleanedIntervals == {i \in intervals : i.id # deploymentPollTimer}

\* Deploy button (rendered for a selected repository, disabled while
\* deploying or without a branch): handleDeploy up to its first await.
\* The handler belongs to the current render, and so does the
\* pollDeploymentStatus it will hand to the timers.
DeployClick ==
    /\ LoggedIn
    /\ selectedRepo # NULL
    /\ ~isDeploying
    /\ selectedBranch # NULL
    /\ repo # NULL
    /\ Len(calls) < MaxDeploys
    /\ InFlight < MaxTasks
    /\ intervals' = CleanedIntervals
    /\ deploymentPollTimer' = NoRun
    /\ error' = NULL
    /\ deploymentStatus' = "TRIGGERED"
    /\ deploymentLogs' = << "Triggering deployment workflow..." >>
    /\ pollAttempts' = 0
    /\ calls' = Append(calls, [dispatch |-> 0, url |-> 0, failed |-> FALSE,
                                trigger |-> "pending"])
    /\ tasks' = Spawn(tasks,
                  Task("deployRuns",
                       [repo |-> repo, branch |-> selectedBranch,
                        status |-> deploymentStatus,
                        baseline |-> lastKnownRunId,
                        rec |-> NoRun, sess |-> Len(calls) + 1],
                       NoRun, NoRun, NULL))
    /\ UNCHANGED <<uiVars, workflowRuns, liveDeploymentUrl, lastKnownRunId,
                   nextTimer, remoteVars, clicks>>
    /\ lastPoll' = NoPoll

\* Variant of the catch of handleDeploy that keeps the baseline.
DeployFailedKeepsBaseline(t, e) ==
    /\ error' = e
    /\ deploymentStatus' = "FAILED"
    /\ UNCHANGED lastKnownRunId
    /\ tasks' = Retire(tasks, t)
    /\ calls' = [calls EXCEPT ![t.sess].trigger = "failed"]

\* The catch of handleDeploy, for the error e of the request of task t.
DeployFailed(t, e) ==
    /\ error' = e
    /\ deploymentStatus' = "FAILED"
    /\ lastKnownRunId' = NoRun
    /\ tasks' = Retire(tasks, t)
    /\ calls' = [calls EXCEPT ![t.sess].trigger = "failed"]

\* handleDeploy after the baseline query: record the newest run id and
\* send the dispatch.
DeployRunsDone(t) ==
    /\ BagIn(t, tasks) /\ t.k = "deployRuns"
    /\ \/ LET list == GetWorkflowRuns(t.repo, t.branch)
              b == IF Len(list) > 0 THEN list[1].id ELSE NoRun
          IN  /\ lastKnownRunId' = b
              /\ tasks' = Spawn(Retire(tasks, t),
                                [t EXCEPT !.k = "deployDispatch", !.rec = b])
              /\ calls' = [calls EXCEPT ![t.sess].dispatch = @ + 1]
              /\ UNCHANGED <<error, deploymentStatus>>
       \/ \E e \in FetchErrors : DeployFailed(t, e)
    /\ UNCHANGED <<uiVars, workflowRuns, deploymentLogs, liveDeploymentUrl,
                   timerVars, remoteVars, clicks>>
    /\ lastPoll' = NoPoll

\* handleDeploy after triggerDeployment: schedule the delayed first poll
\* and the periodic poll, both with the handler's pollDeploymentStatus.
DeployDispatchDone(t) ==
    /\ BagIn(t, tasks) /\ t.k = "deployDispatch"
    /\ \/ /\ pendingDispatch' = pendingDispatch (+)
                 SetToBag({[repo |-> t.repo, branch |-> t.branch]})
          /\ tasks' = Spawn(Retire(tasks, t), [t EXCEPT !.k = "initDelay"])
          /\ intervals' = intervals \cup {[id |-> nextTimer, cl |-> Closure(t)]}
          /\ deploymentPollTimer' = nextTimer
          /\ nextTimer' = nextTimer + 1
          /\ calls' = [calls EXCEPT ![t.sess].trigger = "sent"]
          /\ UNCHANGED <<error, deploymentStatus, lastKnownRunId>>
       \/ /\ \E e \in DispatchErrors : DeployFailed(t, e)
          /\ UNCHANGED <<pendingDispatch, intervals, deploymentPollTimer, nextTimer>>
    /\ UNCHANGED <<uiVars, workflowRuns, deploymentLogs, liveDeploymentUrl,
                   pollAttempts, serverRuns, deployed, clicks>>
    /\ lastPoll' = NoPoll

\* Variants of the two thresholds that fire one attempt early.
TimedOutAtCeiling(attempts) == attempts >= HardCeiling

NoWorkflowDetectedAtFour(attempts) == attempts >= NoWorkflowCeiling

\* pollAttempts.current > 60
TimedOut(attempts) == attempts > HardCeiling

\* pollAttempts.current > 4
NoWorkflowDetected(attempts) == attempts > NoWorkflowCeiling

\* pollDeploymentStatus up to its first await, run with the state values
\* cl its closure captured; baseTasks is the bag without the timeout that
\* fired (the bag itself for an interval tick).
PollStart(cl, baseTasks) ==
    IF cl.status = "IDLE"
    THEN /\ tasks' = baseTasks
         /\ UNCHANGED <<pollAttempts, intervals, deploymentPollTimer,
                        deploymentStatus, deploymentLogs, error, lastKnownRunId>>
    ELSE /\ pollAttempts' = pollAttempts + 1
         /\ IF TimedOut(pollAttempts + 1)
            THEN /\ intervals' = CleanedIntervals
                 /\ deploymentPollTimer' = NoRun
                 /\ deploymentStatus' = "FAILED"
                 /\ deploymentLogs' = Append(deploymentLogs,
                        "Error: Deployment timed out after 5 minutes.")
                 /\ error' = "Deployment timed out."
                 /\ lastKnownRunId' = NoRun
                 /\ tasks' = baseTasks
            ELSE /\ tasks' = Spawn(baseTasks, Task("pollRuns", cl, NoRun, NoRun, NULL))
                 /\ UNCHANGED <<intervals, deploymentPollTimer, deploymentStatus,
                                deploymentLogs, error, lastKnownRunId>>

\* The 2 s timeout of handleDeploy fires.
InitDelayFire(t) ==
    /\ BagIn(t, tasks) /\ t.k = "initDelay"
    /\ AttemptInRange
    /\ PollStart(Closure(t), Retire(tasks, t))
    /\ UNCHANGED <<uiVars, workflowRuns, liveDeploymentUrl, nextTimer,
                   remoteVars, clicks, calls>>
    /\ lastPoll' = NoPoll

\* A live 5 s interval fires.  The 2 s timeout of the same handleDeploy was
\* set first and is due first, so it has fired before the interval's tick.
Tick(i) ==
    /\ i \in intervals
    /\ ~ \E t \in BagToSet(tasks) : t.k = "initDelay" /\ t.sess = i.cl.sess
    /\ AttemptInRange
    /\ InFlight < MaxTasks
    /\ PollStart(i.cl, tasks)
    /\ UNCHANGED <<uiVars, workflowRuns, liveDeploymentUrl, nextTimer,
                   remoteVars, clicks, calls>>
    /\ lastPoll' = NoPoll

RECURSIVE IdsOf(_)
IdsOf(list) == IF list = << >> THEN << >>
               ELSE << Head(list).id >> \o IdsOf(Tail(list))

\* Variant of the success test that also takes a failed run as deployed.
WantsLiveUrlAnyConclusion(run) == run.conclusion \in {"success", "failure"}

\* relevantRun.conclusion === 'success'
WantsLiveUrl(run) == run.conclusion = "success"

\* Variant of the status test that takes a queued run as over.
StillRunningInProgressOnly(run) == run.status = "in_progress"

\* Variant of the status test that takes only a successful run as over.
StillRunningUnlessSuccess(run) ==
    run.status \in {"in_progress", "queued"} \/ run.conclusion # "success"

\* relevantRun.status === 'in_progress' || relevantRun.status === 'queued'
StillRunning(run) == run.status \in {"in_progress", "queued"}

\* pollDeploymentStatus after getWorkflowRuns.
PollRunsDone(t) ==
    /\ BagIn(t, tasks) /\ t.k = "pollRuns"
    /\ \/ LET list == GetWorkflowRuns(t.repo, t.branch)
              relevantRun == RelevantRun(list, t.baseline)
          IN  /\ workflowRuns' = list
              /\ lastPoll' = [sess |-> t.sess, rec |-> t.rec,
                              baseline |-> t.baseline, ids |-> IdsOf(list),
                              picked |-> relevantRun.id,
                              attempts |-> pollAttempts, ev |-> "runs",
                              jobs |-> << >>, outcome |-> "none"]
              /\ UNCHANGED calls
              /\ IF relevantRun # NoRelevant
                 THEN IF StillRunning(relevantRun)
                      THEN /\ deploymentStatus' = "IN_PROGRESS"
                           /\ tasks' = Spawn(Retire(tasks, t),
                                 [t EXCEPT !.k = "pollJobs",
                                           !.runId = relevantRun.id])
                           /\ UNCHANGED <<intervals, deploymentPollTimer,
                                          deploymentLogs, lastKnownRunId, error>>
                      ELSE /\ intervals' = CleanedIntervals
                           /\ deploymentPollTimer' = NoRun
                           /\ deploymentStatus' = "IDLE"
                           /\ deploymentLogs' = << >>
                           /\ lastKnownRunId' = NoRun
                           /\ tasks' = IF WantsLiveUrl(relevantRun)
                                       THEN Spawn(Retire(tasks, t),
                                              [t EXCEPT !.k = "settle",
                                                  !.sha = relevantRun.head_sha])
                                       ELSE Retire(tasks, t)
                           /\ UNCHANGED error
                 ELSE IF NoWorkflowDetected(pollAttempts)
                      THEN /\ intervals' = CleanedIntervals
                           /\ deploymentPollTimer' = NoRun
                           /\ deploymentStatus' = "FAILED"
                           /\ lastKnownRunId' = NoRun
                           /\ error' = "NO_WORKFLOW_DETECTED"
                           /\ tasks' = Retire(tasks, t)
                           /\ UNCHANGED deploymentLogs
                      ELSE /\ tasks' = Retire(tasks, t)
                           /\ UNCHANGED <<intervals, deploymentPollTimer,
                                          deploymentStatus, deploymentLogs,
                                          lastKnownRunId, error>>
       \/ /\ \E e \in FetchErrors : error' = e
          /\ deploymentStatus' = "FAILED"
          /\ deploymentLogs' = << >>
          /\ intervals' = CleanedIntervals
          /\ deploymentPollTimer' = NoRun
          /\ lastKnownRunId' = NoRun
          /\ tasks' = Retire(tasks, t)
          /\ lastPoll' = [NoPoll EXCEPT !.ev = "runsFailed"]
          /\ calls' = [calls EXCEPT ![t.sess].failed = TRUE]
          /\ UNCHANGED workflowRuns
    /\ UNCHANGED <<uiVars, liveDeploymentUrl, pollAttempts, nextTimer,
                   remoteVars, clicks>>

\* Job lists getWorkflowJobs may answer with.
Job(id, st) == [id |-> id, status |-> st]
JobLists == { << >>,
              << Job(1, "completed"), Job(2, "in_progress") >> }

\* jobs.find(job => job.status === 'in_progress'); 0 if none
RECURSIVE FindInProgress(_, _)
FindInProgress(jobs, i) ==
    IF i > Len(jobs) THEN 0
    ELSE IF jobs[i].status = "in_progress" THEN jobs[i].id
    ELSE FindInProgress(jobs, i + 1)

\* Variant of the choice that always takes the first job.
BuildJobFirst(jobs) == IF Len(jobs) > 0 THEN jobs[1].id ELSE 0

\* jobs.find(job => job.status === 'in_progress') || jobs[0]; 0 if none
BuildJob(jobs) ==
    IF FindInProgress(jobs, 1) # 0 THEN FindInProgress(jobs, 1)
    ELSE IF Len(jobs) > 0 THEN jobs[1].id ELSE 0

\* Raw log text of a job.
LogOf(jobId) == CASE jobId = 1 -> "log of job 1"
                  [] jobId = 2 -> "log of job 2"
                  [] OTHER     -> "log of job 3"

\* getWorkflowJobs answered the poll t with the list jobs: request the log
\* of the build job, if there is one.
JobsAnswered(t, jobs) ==
    /\ IF BuildJob(jobs) # 0
       THEN /\ tasks' = Spawn(Retire(tasks, t),
                   [t EXCEPT !.k = "pollLogs", !.runId = BuildJob(jobs)])
            /\ UNCHANGED deploymentLogs
       ELSE /\ tasks' = Retire(tasks, t)
            /\ deploymentLogs' = OrElse(deploymentLogs,
                   << "Workflow job is queued. Waiting for logs..." >>)
    /\ lastPoll' = [NoPoll EXCEPT !.ev = "jobs", !.jobs = jobs]

\* pollDeploymentStatus after getWorkflowJobs (inner try).
PollJobsDone(t) ==
    /\ BagIn(t, tasks) /\ t.k = "pollJobs"
    /\ \/ \E jobs \in JobLists : JobsAnswered(t, jobs)
       \/ /\ tasks' = Retire(tasks, t)
          /\ deploymentLogs' = OrElse(deploymentLogs,
                                      << "Waiting for build logs..." >>)
          /\ lastPoll' = [NoPoll EXCEPT !.ev = "jobsFailed"]
    /\ UNCHANGED <<uiVars, deploymentStatus, workflowRuns, liveDeploymentUrl,
                   lastKnownRunId, error, timerVars, remoteVars, clicks, calls>>

\* pollDeploymentStatus after getJobLogs (inner try).
PollLogsDone(t) ==
    /\ BagIn(t, tasks) /\ t.k = "pollLogs"
    /\ \/ /\ deploymentLogs' = << LogOf(t.runId) >>
          /\ lastPoll' = [NoPoll EXCEPT !.ev = "logs"]
       \/ /\ deploymentLogs' = OrElse(deploymentLogs,
                                      << "Waiting for build logs..." >>)
          /\ lastPoll' = [NoPoll EXCEPT !.ev = "logsFailed"]
    /\ tasks' = Retire(tasks, t)
    /\ UNCHANGED <<uiVars, deploymentStatus, workflowRuns, liveDeploymentUrl,
                   lastKnownRunId, error, timerVars, remoteVars, clicks, calls>>

\* The 2 s settle timeout fires: the live-url lookup is sent.
SettleFire(t) ==
    /\ BagIn(t, tasks) /\ t.k = "settle"
    /\ tasks' = Spawn(Retire(tasks, t), [t EXCEPT !.k = "urlLookup"])
    /\ calls' = [calls EXCEPT ![t.sess].url = IF @ < 2 THEN @ + 1 ELSE @]
    /\ UNCHANGED <<uiVars, deployVars, timerVars, remoteVars, clicks>>
    /\ lastPoll' = NoPoll

\* The lookup resolves (getLatestSuccessDeploymentUrl never throws).
UrlLookupDone(t) ==
    /\ BagIn(t, tasks) /\ t.k = "urlLookup"
    /\ \E outcome \in ResolverOutcomes :
          /\ liveDeploymentUrl' = GetLatestSuccessDeploymentUrl(outcome,
                                      DeploymentsOf(t.repo, t.sha))
          /\ lastPoll' = [NoPoll EXCEPT !.ev = "url", !.outcome = outcome]
    /\ tasks' = Retire(tasks, t)
    /\ UNCHANGED <<uiVars, deploymentStatus, workflowRuns, deploymentLogs,
                   lastKnownRunId, error, timerVars, remoteVars, clicks, calls>>

\* ------------------------------------------------------ specification
Next ==
    \/ \E r \in Repos : RepoChangeClick(r)
    \/ LogoClick
    \/ Logout
    \/ ConnectClick
    \/ DeployClick
    \/ \E t \in BagToSet(tasks) : AuthDone(t)
    \/ \E t \in BagToSet(tasks) : ReposDone(t)
    \/ \E t \in BagToSet(tasks) : BranchesDone(t)
    \/ \E t \in BagToSet(tasks) : TreeDone(t)
    \/ \E t \in BagToSet(tasks) : BranchRunsDone(t)
    \/ \E t \in BagToSet(tasks) : BranchUrlDone(t)
    \/ \E t \in BagToSet(tasks) : DeployRunsDone(t)
    \/ \E t \in BagToSet(tasks) : DeployDispatchDone(t)
    \/ \E t \in BagToSet(tasks) : InitDelayFire(t)
    \/ \E i \in intervals : Tick(i)
    \/ \E t \in BagToSet(tasks) : PollRunsDone(t)
    \/ \E t \in BagToSet(tasks) : PollJobsDone(t)
    \/ \E t \in BagToSet(tasks) : PollLogsDone(t)
    \/ \E t \in BagToSet(tasks) : SettleFire(t)
    \/ \E t \in BagToSet(tasks) : UrlLookupDone(t)
    \/ \E d \in BagToSet(pendingDispatch) : Materialize(d)
    \/ \E i \in 1..Len(serverRuns) : Advance(i)
    \/ \E i \in 1..Len(serverRuns) : RegisterDeployment(i)

Spec == Init /\ [][Next]_vars

\* ---------------------------------------- the find of line 538, in isolation
MaxFindLen == 3     \* length of the run lists tried
MaxFindId  == 4     \* run ids tried

\* Run lists with unique ids, in every array order.
FindLists ==
    { l \in UNION { [1..n -> 1..MaxFindId] : n \in 0..MaxFindLen } :
        \A i, j \in 1..Len(l) : i # j => l[i] # l[j] }

RunsOfIds(l) == [j \in 1..Len(l) |-> MkRun(l[j], "A", "main", "completed", "success")]

InitFind ==
    /\ githubToken = TRUE /\ user = TRUE /\ storedToken = TRUE
    /\ projects = AllProjects
    /\ selectedRepo = "A" /\ repo = "A" /\ selectedBranch = "main"
    /\ deploymentStatus = "FAILED"
    /\ workflowRuns = << >>
    /\ deploymentLogs = << >>
    /\ liveDeploymentUrl = NoRun
    /\ lastKnownRunId \in 0..MaxFindId
    /\ error = NULL
    /\ pollAttempts = 1
    /\ deploymentPollTimer = NoRun
    /\ intervals = {}
    /\ nextTimer = 1
    /\ tasks = EmptyBag
    /\ \E l \in FindLists : serverRuns = RunsOfIds(l)
    /\ pendingDispatch = EmptyBag
    /\ deployed = {}
    /\ clicks = 0
    /\ lastPoll = NoPoll
    /\ calls = << >>

\* workflow_runs.find(run => lastKnownRunId === null || run.id > lastKnownRunId)
ApplyFind ==
    /\ lastPoll' = [sess |-> 1, rec |-> lastKnownRunId,
                    baseline |-> lastKnownRunId, ids |-> IdsOf(serverRuns),
                    picked |-> RelevantRun(serverRuns, lastKnownRunId).id,
                    attempts |-> pollAttempts, ev |-> "runs", jobs |-> << >>,
                    outcome |-> "none"]
    /\ UNCHANGED <<uiVars, deployVars, timerVars, tasks, remoteVars, clicks, calls>>

SpecFind == InitFind /\ [][ApplyFind]_vars

\* ------------------------------------- the request wrappers, in isolation

\* A wrapper is about to look at a response.
InitWrap ==
    /\ githubToken = TRUE /\ user = TRUE /\ storedToken = TRUE
    /\ projects = AllProjects
    /\ selectedRepo = NULL /\ repo = NULL /\ selectedBranch = NULL
    /\ deploymentStatus = "IDLE"
    /\ workflowRuns = << >>
    /\ deploymentLogs = << >>
    /\ liveDeploymentUrl = NoRun
    /\ lastKnownRunId = NoRun
    /\ error = NULL
    /\ pollAttempts = 0
    /\ deploymentPollTimer = NoRun
    /\ intervals = {}
    /\ nextTimer = 1
    /\ tasks = EmptyBag
    /\ serverRuns = << >>
    /\ pendingDispatch = EmptyBag
    /\ deployed = {}
    /\ clicks = 0
    /\ \E w \in Wrappers, r \in Responses :
          lastPoll = [ev |-> "request", w |-> w, r |-> r, out |-> ReturnsVoid]
    /\ calls = << >>

\* The wrapper returns or throws.
ApplyWrapper ==
    /\ lastPoll.ev = "request"
    /\ lastPoll' = [lastPoll EXCEPT !.ev = "response",
                                    !.out = Wrapper(lastPoll.w, lastPoll.r)]
    /\ UNCHANGED <<uiVars, deployVars, timerVars, tasks, remoteVars, clicks, calls>>

SpecWrap == InitWrap /\ [][ApplyWrapper]_vars

\* ------------------------------------ the choice of the build job, alone
MaxJobs == 3        \* length of the job lists tried, and job ids tried

\* Job lists with unique ids, in every order and with every status.
AllJobLists ==
    { l \in UNION { [1..n -> [id : 1..MaxJobs,
                              status : {"queued", "in_progress", "completed"}]]
                     : n \in 0..MaxJobs } :
        \A i, j \in 1..Len(l) : i # j => l[i].id # l[j].id }

\* The job-list request of a poll of run 2 is pending; the log shown is
\* the trigger's placeholder, or nothing.
InitJobs ==
    /\ githubToken = TRUE /\ user = TRUE /\ storedToken = TRUE
    /\ projects = AllProjects
    /\ selectedRepo = "B" /\ repo = "B" /\ selectedBranch = "master"
    /\ deploymentStatus = "IN_PROGRESS"
    /\ workflowRuns = << MkRun(2, "B", "master", "in_progress", NULL) >>
    /\ deploymentLogs \in {<< >>, << "Triggering deployment workflow..." >>}
    /\ liveDeploymentUrl = NoRun
    /\ lastKnownRunId = NoRun
    /\ error = NULL
    /\ pollAttempts = 1
    /\ deploymentPollTimer = 1
    /\ intervals = {[id |-> 1,
                     cl |-> [repo |-> "B", branch |-> "master",
                             status |-> "FAILED", baseline |-> NoRun,
                             rec |-> NoRun, sess |-> 2]]}
    /\ nextTimer = 2
    /\ tasks = SetToBag({Task("pollJobs",
                              [repo |-> "B", branch |-> "master",
                               status |-> "FAILED", baseline |-> NoRun,
                               rec |-> NoRun, sess |-> 2],
                              2, NoRun, NULL)})
    /\ serverRuns = << MkRun(2, "B", "master", "in_progress", NULL),
                       MkRun(1, "A", "main", "completed", "success") >>
    /\ pendingDispatch = EmptyBag
    /\ deployed = {[repo |-> "A", sha |-> HeadSha(1)]}
    /\ clicks = 1
    /\ lastPoll = NoPoll
    /\ calls = << [dispatch |-> 0, url |-> 0, failed |-> FALSE,
                   trigger |-> "failed"],
                  [dispatch |-> 1, url |-> 0, failed |-> FALSE,
                   trigger |-> "sent"] >>

\* The job list arrives, whatever it is.
AnyJobsDone(t) ==
    /\ BagIn(t, tasks) /\ t.k = "pollJobs"
    /\ \E jobs \in AllJobLists : JobsAnswered(t, jobs)
    /\ UNCHANGED <<uiVars, deploymentStatus, workflowRuns, liveDeploymentUrl,
                   lastKnownRunId, error, timerVars, remoteVars, clicks, calls>>

NextJobs ==
    \/ \E t \in BagToSet(tasks) : AnyJobsDone(t)
    \/ \E t \in BagToSet(tasks) : PollLogsDone(t)

SpecJobs == InitJobs /\ [][NextJobs]_vars

\* ------------------------------------- the live-url resolver, alone
MaxDeployments == 2     \* deployments listed for the commit, and dates
MaxStatuses    == 2     \* statuses of a deployment

\* A status is a failure, a success with its environment url, or a success
\* without one; the url of the k-th status of the d-th listed deployment is
\* 10 d + k, so that every url names its status.
StatusKinds == {"failure", "success", "successNoUrl"}

MkStatus(kind, d, k) ==
    [state |-> IF kind = "failure" THEN "failure" ELSE "success",
     environment_url |-> IF kind = "successNoUrl" THEN NoRun ELSE 10 * d + k]

MkDeployments(l) ==
    [d \in 1..Len(l) |->
        [created_at |-> l[d].created_at,
         statuses |-> [k \in 1..Len(l[d].kinds) |->
                          MkStatus(l[d].kinds[k], d, k)]]]

\* Deployment lists in every order of creation dates (ties included), with
\* every status history.
AllDeploymentLists ==
    { MkDeployments(l) :
        l \in UNION { [1..n -> [created_at : 1..MaxDeployments,
                                kinds : UNION { [1..m -> StatusKinds]
                                                : m \in 0..MaxStatuses }]]
                       : n \in 0..MaxDeployments } }

\* The resolver is called for a commit with some deployment list.
InitUrl ==
    /\ githubToken = TRUE /\ user = TRUE /\ storedToken = TRUE
    /\ projects = AllProjects
    /\ selectedRepo = "A" /\ repo = "A" /\ selectedBranch = "main"
    /\ deploymentStatus = "IDLE"
    /\ workflowRuns = << MkRun(1, "A", "main", "completed", "success") >>
    /\ deploymentLogs = << >>
    /\ liveDeploymentUrl = NoRun
    /\ lastKnownRunId = NoRun
    /\ error = NULL
    /\ pollAttempts = 1
    /\ deploymentPollTimer = NoRun
    /\ intervals = {}
    /\ nextTimer = 2
    /\ tasks = EmptyBag
    /\ serverRuns = << MkRun(1, "A", "main", "completed", "success") >>
    /\ pendingDispatch = EmptyBag
    /\ deployed = {}
    /\ clicks = 0
    /\ \E deployments \in AllDeploymentLists :
          lastPoll = [ev |-> "lookup", deployments |-> deployments]
    /\ calls = << >>

\* The resolver returns and its result is stored.
ApplyResolver ==
    /\ lastPoll.ev = "lookup"
    /\ liveDeploymentUrl' =
          GetLatestSuccessDeploymentUrl("answered", lastPoll.deployments)
    /\ lastPoll' = [lastPoll EXCEPT !.ev = "resolved"]
    /\ UNCHANGED <<uiVars, deploymentStatus, workflowRuns, deploymentLogs,
                   lastKnownRunId, error, timerVars, tasks, remoteVars,
                   clicks, calls>>

SpecUrl == InitUrl /\ [][ApplyResolver]_vars

\* ------------------------------- a session close to the hard ceiling

\* The state of a session that was triggered from status FAILED on
\* repository B (no earlier runs), whose run 2 is in progress, after n
\* poll attempts that each found the run in progress and fetched its log.
SessionRunning(n) ==
    /\ githubToken = TRUE /\ user = TRUE /\ storedToken = TRUE
    /\ projects = AllProjects
    /\ selectedRepo = "B" /\ repo = "B" /\ selectedBranch = "master"
    /\ deploymentStatus = "IN_PROGRESS"
    /\ workflowRuns = << MkRun(2, "B", "master", "in_progress", NULL) >>
    /\ deploymentLogs = << LogOf(2) >>
    /\ liveDeploymentUrl = NoRun
    /\ lastKnownRunId = NoRun
    /\ error = NULL
    /\ pollAttempts = n
    /\ deploymentPollTimer = 1
    /\ intervals = {[id |-> 1,
                     cl |-> [repo |-> "B", branch |-> "master",
                             status |-> "FAILED", baseline |-> NoRun,
                             rec |-> NoRun, sess |-> 2]]}
    /\ nextTimer = 2
    /\ tasks = EmptyBag
    /\ serverRuns = << MkRun(2, "B", "master", "in_progress", NULL),
                       MkRun(1, "A", "main", "completed", "success") >>
    /\ pendingDispatch = EmptyBag
    /\ deployed = {[repo |-> "A", sha |-> HeadSha(1)]}
    /\ clicks = 1
    /\ lastPoll = NoPoll
    /\ calls = << [dispatch |-> 0, url |-> 0, failed |-> FALSE,
                   trigger |-> "failed"],
                  [dispatch |-> 1, url |-> 0, failed |-> FALSE,
                   trigger |-> "sent"] >>

InitLate == SessionRunning(HardCeiling - 3)

NextLate ==
    \/ \E i \in intervals : Tick(i)
    \/ \E t \in BagToSet(tasks) : PollRunsDone(t)
    \/ \E t \in BagToSet(tasks) : PollJobsDone(t)
    \/ \E t \in BagToSet(tasks) : PollLogsDone(t)
    \/ \E t \in BagToSet(tasks) : SettleFire(t)
    \/ \E t \in BagToSet(tasks) : UrlLookupDone(t)
    \/ \E i \in 1..Len(serverRuns) : Advance(i)
    \/ \E i \in 1..Len(serverRuns) : RegisterDeployment(i)

SpecTimeout == InitLate /\ [][NextLate]_vars

\* ------------------------------------------------------------ properties

\* A step evaluated a run list (lastPoll describes that evaluation).
Evaluated == lastPoll.sess # 0

\* The task t left the bag in this step (its await resolved / it fired).
Resolved(t) == CopiesIn(t, tasks') < CopiesIn(t, tasks)

\* The task t entered the bag in this step (a request was sent).
Started(t) == CopiesIn(t, tasks') > CopiesIn(t, tasks)

PollFetches == {"pollRuns", "pollJobs", "pollLogs"}

Min(S) == CHOOSE x \in S : \A y \in S : x <= y
Max(S) == CHOOSE x \in S : \A y \in S : x >= y

Descending(ids) == \A i, j \in 1..Len(ids) : i < j => ids[i] > ids[j]

\* Indices of the runs of the evaluated list that are newer than b.
NewerAt(ids, b) == {j \in 1..Len(ids) : b = NoRun \/ ids[j] > b}

\* C1 (as claimed): the relevant run is the run with the smallest id
\* strictly greater than the baseline, whatever the array order.
C1_SmallestNewer ==
    (Evaluated /\ lastPoll.baseline # NoRun)
        => lastPoll.picked =
             (IF NewerAt(lastPoll.ids, lastPoll.baseline) = {} THEN NoRun
              ELSE Min({lastPoll.ids[j] : j \in NewerAt(lastPoll.ids, lastPoll.baseline)}))

\* C1 (amended): the relevant run is the first run, in array order, whose
\* id is strictly greater than the baseline (none if there is none); for a
\* newest-first list this is the run with the greatest id.
C1_FirstNewerInArrayOrder ==
    Evaluated =>
        LET ids == lastPoll.ids
            Q == NewerAt(ids, lastPoll.baseline)
        IN  IF Q = {} THEN lastPoll.picked = NoRun
            ELSE /\ lastPoll.picked = ids[Min(Q)]
                 /\ Descending(ids) => lastPoll.picked = Max({ids[j] : j \in Q})

C1_Witness ==
    /\ Evaluated
    /\ lastPoll.ids = << 4, 3, 1 >>
    /\ lastPoll.baseline = 2
    /\ lastPoll.picked = 4

\* No run of the evaluated list is newer than the baseline the session's
\* trigger recorded.
NoneNewerThanRecorded == NewerAt(lastPoll.ids, lastPoll.rec) = {}

\* C4 (as claimed): a poll that is at least the 4th attempt and returns no
\* run newer than the recorded baseline leaves the status Failed with the
\* workflow-not-detected condition and the timer stopped.
C4_FailsAtFourthMiss ==
    (Evaluated /\ NoneNewerThanRecorded /\ lastPoll.attempts >= 4)
        => /\ deploymentStatus = "FAILED"
           /\ error = "NO_WORKFLOW_DETECTED"
           /\ deploymentPollTimer = NoRun

\* C4 (amended): a poll evaluation that finds no relevant run ends the
\* session with the workflow-not-detected condition exactly when the
\* attempt counter exceeds 4 (from the 5th attempt on); up to the 4th
\* attempt it changes neither status, error, baseline nor timer.
C4_FailsAfterFourthAttempt ==
    [][(lastPoll'.sess # 0 /\ lastPoll'.picked = NoRun)
         => IF lastPoll'.attempts > NoWorkflowCeiling
            THEN /\ deploymentStatus' = "FAILED"
                 /\ error' = "NO_WORKFLOW_DETECTED"
                 /\ lastKnownRunId' = NoRun
                 /\ deploymentPollTimer' = NoRun
                 /\ \A i \in intervals' : i.id # deploymentPollTimer
            ELSE UNCHANGED <<deploymentStatus, error, lastKnownRunId,
                             deploymentPollTimer, intervals>>]_vars

C4_Witness ==
    /\ Evaluated
    /\ lastPoll.picked = NoRun
    /\ lastPoll.attempts = NoWorkflowCeiling + 1
    /\ deploymentStatus = "FAILED"
    /\ error = "NO_WORKFLOW_DETECTED"

\* The step is a poll tick that counted an attempt.
Counted == pollAttempts' = pollAttempts + 1

NoFetchStarted == \A t \in BagToSet(tasks') : t.k = "pollRuns" => ~Started(t)

\* C5 (as claimed): the tick that brings the counter to the ceiling while
\* the status is InProgress times the session out and fetches nothing.
C5_TimesOutAtCeiling ==
    [][(Counted /\ pollAttempts' = HardCeiling /\ deploymentStatus = "IN_PROGRESS")
         => /\ deploymentStatus' \in {"TIMED_OUT", "FAILED"}
            /\ error' = "Deployment timed out."
            /\ deploymentPollTimer' = NoRun
            /\ NoFetchStarted]_vars

\* C5 (amended): the tick that brings the counter above the ceiling (the
\* 61st attempt) sets the status FAILED with the timeout error, clears the
\* baseline and the timer the poller holds and fetches nothing; a tick
\* that leaves the counter at or below the ceiling fetches the run list
\* and changes neither status nor error.
C5_TimesOutAboveCeiling ==
    [][Counted
         => IF pollAttempts' > HardCeiling
            THEN /\ deploymentStatus' = "FAILED"
                 /\ error' = "Deployment timed out."
                 /\ lastKnownRunId' = NoRun
                 /\ deploymentPollTimer' = NoRun
                 /\ \A i \in intervals' : i.id # deploymentPollTimer
                 /\ NoFetchStarted
            ELSE /\ \E t \in BagToSet(tasks') : t.k = "pollRuns" /\ Started(t)
                 /\ UNCHANGED <<deploymentStatus, error>>]_vars

C5_Witness ==
    /\ pollAttempts = HardCeiling + 1
    /\ deploymentStatus = "FAILED"
    /\ error = "Deployment timed out."
    /\ deploymentPollTimer = NoRun

\* C2: in a session whose trigger recorded a baseline other than none, a
\* run the poller treats as relevant has an id strictly greater than the
\* recorded baseline.
C2_RelevantNewerThanRecorded ==
    (Evaluated /\ lastPoll.rec # NoRun /\ lastPoll.picked # NoRun)
        => lastPoll.picked > lastPoll.rec

C6_UrlLookupOnce == \A s \in 1..Len(calls) : calls[s].url <= 1

\* C7: when a poll fetch or live-url lookup of a session whose selection
\* has since been replaced resolves, it changes none of the observable
\* deployment state.
C7_StaleFetchInert ==
    [][\A t \in BagToSet(tasks) :
          (t.k \in PollFetches \cup {"urlLookup"} /\ t.repo # repo /\ Resolved(t))
             => UNCHANGED <<deploymentStatus, deploymentLogs, workflowRuns,
                            liveDeploymentUrl, error, lastKnownRunId>>]_vars

\* C8: every run-list, job, log or dispatch request that is sent is for
\* the selection currently shown.
C8_NoCallsForOldSelection ==
    [][\A t \in BagToSet(tasks') :
          (t.k \in PollFetches \cup {"deployDispatch"} /\ Started(t))
             => (selectedRepo # NULL /\ t.repo = repo)]_vars

\* C9: at most one periodic poll timer is live.
C9_AtMostOneTimer == Cardinality(intervals) <= 1

\* C10: once a later trigger has run to its end, no timer of an earlier
\* session is live.
C10_OnlyLatestSessionTimer ==
    (~ \E t \in BagToSet(tasks) : t.k \in {"deployRuns", "deployDispatch"})
        => \A i \in intervals : i.cl.sess = Len(calls)

\* C11: a poll tick never starts its run-list fetch while a run-list, job
\* or log fetch of an earlier tick of the same or an earlier session is
\* still awaited.
C11_OnePollInFlight ==
    [][\A t \in BagToSet(tasks') :
          (t.k = "pollRuns" /\ Started(t))
             => ~ \E u \in BagToSet(tasks) :
                     u.k \in PollFetches /\ u.sess <= t.sess]_vars

\* C12: a session whose status is Triggered or InProgress can still reach
\* a terminal outcome by timer ticks alone: when no request is awaited and
\* no timeout is pending, a timer is live whose ticks do poll (a tick of a
\* callback that captured status IDLE returns before it fetches anything).
C12_DeployingSessionIsPolled ==
    (isDeploying /\ tasks = EmptyBag)
        => \E i \in intervals : i.cl.status # "IDLE"

\* C13: a poll evaluation that ends a session (the status leaves Triggered
\* / InProgress) while the list holds no run newer than the baseline the
\* trigger recorded ends it with the workflow-not-detected condition.
C13_NoNewerRunEndsNotDetected ==
    [][(/\ lastPoll'.ev = "runs"
        /\ NewerAt(lastPoll'.ids, lastPoll'.rec) = {}
        /\ isDeploying
        /\ deploymentStatus' \notin {"TRIGGERED", "IN_PROGRESS"})
          => /\ deploymentStatus' = "FAILED"
             /\ error' = "NO_WORKFLOW_DETECTED"]_vars

\* C14: once the run-list fetch of a poll tick of a session has failed, no
\* run-list, job or log fetch of that session is started any more.
C14_NoFetchAfterFailedTick ==
    [][\A t \in BagToSet(tasks') :
          (t.k \in PollFetches /\ Started(t)) => ~ calls[t.sess].failed]_vars

\* The step is the catch of the inner try: the job-list or the job-log
\* fetch of a poll failed.
LogFetchFailed == lastPoll'.ev \in {"jobsFailed", "logsFailed"}

\* C15: a failure of the job-list or job-log fetch changes neither the
\* status (InProgress stays InProgress) nor the error, the baseline, the
\* run list or any timer, and a stored log snapshot is kept as it is; only
\* when no snapshot is stored is the waiting placeholder shown.
C15_LogFailureSwallowed ==
    [][LogFetchFailed
         => /\ UNCHANGED <<deploymentStatus, error, lastKnownRunId, workflowRuns,
                           liveDeploymentUrl, pollAttempts,
                           deploymentPollTimer, intervals>>
            /\ deploymentStatus = "IN_PROGRESS" => deploymentStatus' = "IN_PROGRESS"
            /\ IF deploymentLogs # << >>
               THEN UNCHANGED deploymentLogs
               ELSE deploymentLogs' = << "Waiting for build logs..." >>]_vars

C15_Witness ==
    /\ lastPoll.ev = "logsFailed"
    /\ deploymentStatus = "IN_PROGRESS"
    /\ deploymentLogs = << LogOf(2) >>
    /\ error = NULL
    /\ \E i \in intervals : i.id = deploymentPollTimer

\* The run the latest evaluation picked, as the remote side holds it.
PickedRemote == {r \in {serverRuns[j] : j \in 1..Len(serverRuns)} :
                    r.id = lastPoll.picked}

\* The latest evaluation picked a run that is completed without success.
PickedFailedRun ==
    /\ lastPoll.ev = "runs"
    /\ lastPoll.picked # NoRun
    /\ \E r \in PickedRemote : r.status = "completed" /\ r.conclusion # "success"

Responded == lastPoll.ev = "response"

\* C19 (as claimed): every wrapper returns the parsed body on a 2xx
\* response, null for a 204 or an empty body, throws the unauthorized
\* error on 401 and, on any other non-2xx response, an error that carries
\* the provider's message when there is one.
C19_EveryWrapperSameContract ==
    Responded =>
        LET r == lastPoll.r
            out == lastPoll.out
            empty == r.status = 204 \/ r.body = "none"
        IN  /\ (Ok(r) /\ IsJson(r)) => out = Returns(r.body)
            /\ (Ok(r) /\ empty) => out = ReturnsNull
            /\ r.status = 401
                 => out = Throws("Unauthorized: Invalid GitHub token.", 0)
            /\ (~ Ok(r) /\ r.status # 401)
                 => /\ out.kind = "error"
                    /\ r.body = "jsonMessage"
                         => out.msg.text = ProviderMessage(r.status)

\* C19 (amended): handleResponse returns the parsed body of a 2xx JSON
\* response, null for a 204 or Content-Length 0 response, throws the
\* unauthorized error on 401 and, on another non-2xx response with a JSON
\* body, an error with the provider's message (or the status when there
\* is none); triggerDeployment returns nothing on 2xx and on every
\* non-2xx response, 401 included, throws the provider's message (or a
\* fixed hint); getJobLogs returns the raw text on 2xx and on every
\* non-2xx response, 401 included, throws an error naming the status.
C19_ContractPerWrapper ==
    Responded =>
        LET r == lastPoll.r
            out == lastPoll.out
        IN  CASE lastPoll.w = "handleResponse" ->
                   /\ (Ok(r) /\ ~ (r.len0 \/ r.status = 204) /\ IsJson(r))
                        => out = Returns(r.body)
                   /\ (Ok(r) /\ (r.len0 \/ r.status = 204)) => out = ReturnsNull
                   /\ r.status = 401
                        => out = Throws("Unauthorized: Invalid GitHub token.", 0)
                   /\ (~ Ok(r) /\ r.status # 401 /\ IsJson(r))
                        => out = IF r.body = "jsonMessage"
                                 THEN Throws(ProviderMessage(r.status), 0)
                                 ELSE Throws("API request failed with status",
                                             r.status)
              [] lastPoll.w = "triggerDeployment" ->
                   /\ Ok(r) => out = ReturnsVoid
                   /\ ~ Ok(r)
                        => out = IF r.body = "jsonMessage"
                                 THEN Throws(ProviderMessage(r.status), 0)
                                 ELSE Throws("Failed to trigger workflow.", 0)
              [] lastPoll.w = "getJobLogs" ->
                   /\ Ok(r) => out.kind = "value"
                   /\ ~ Ok(r)
                        => out = Throws("Failed to fetch logs with status",
                                        r.status)

C19_Witness ==
    /\ Responded
    /\ lastPoll.w = "handleResponse"
    /\ lastPoll.r.status = 401
    /\ lastPoll.out.msg.text = "Unauthorized: Invalid GitHub token."

\* C20: every poll of a session evaluates the run list against the
\* baseline that the trigger of that session recorded (the id of the
\* first run of the list it queried before the dispatch, or none).
C20_PollUsesRecordedBaseline ==
    Evaluated => lastPoll.baseline = lastPoll.rec

\* The error texts of a 401 response: handleResponse's, and the provider's
\* message that triggerDeployment passes on.
Unauthorized401 == Response(401, "jsonMessage", FALSE)
UnauthorizedErrors == {HandleResponse(Unauthorized401).msg.text,
                       TriggerDeployment(Unauthorized401).msg.text}

\* C17: while the error of a 401 response is the one surfaced, the stored
\* credential has been cleared.
C17_UnauthorizedClearsCredential ==
    error \in UnauthorizedErrors => ~ storedToken

\* C18: the not-detected condition is never on screen as raw error text,
\* and every other error is on screen as raw error text and never as the
\* setup instructions.
C18_NotDetectedNeverRaw ==
    /\ error = "NO_WORKFLOW_DETECTED" => ~ ShowsRawError
    /\ (error # NULL /\ error # "NO_WORKFLOW_DETECTED")
         => /\ ShowsRawError
            /\ \A view \in Views : ~ ShowsWorkflowInstructions(view)

\* The dispatch of task t succeeded in this step: handleDeploy went on to
\* schedule its timers.
DispatchSucceeded(t) ==
    /\ t.k = "deployDispatch"
    /\ Resolved(t)
    /\ Started([t EXCEPT !.k = "initDelay"])

\* C21: the step in which the dispatch of a trigger succeeds leaves the
\* status TRIGGERED and the attempt counter 0, with one delayed poll and
\* one interval scheduled, and no poll of a session starts while its
\* baseline query or its dispatch is still pending.
C21_TriggerLeavesSessionReady ==
    [][/\ \A t \in BagToSet(tasks) : DispatchSucceeded(t) =>
            /\ deploymentStatus' = "TRIGGERED"
            /\ pollAttempts' = 0
            /\ CopiesIn([t EXCEPT !.k = "initDelay"], tasks')
                 = CopiesIn([t EXCEPT !.k = "initDelay"], tasks) + 1
            /\ Cardinality(intervals' \ intervals) = 1
            /\ \E i \in intervals' \ intervals :
                  i.id = deploymentPollTimer' /\ i.cl.sess = t.sess
       /\ \A u \in BagToSet(tasks') : (u.k = "pollRuns" /\ Started(u)) =>
            ~ \E t \in BagToSet(tasks) :
                  t.k \in {"deployRuns", "deployDispatch"} /\ t.sess = u.sess
      ]_vars

\* The latest evaluation picked a run that is completed.
PickedCompletedRun ==
    /\ lastPoll.ev = "runs"
    /\ lastPoll.picked # NoRun
    /\ \E r \in PickedRemote : r.status = "completed"

\* C22: the poll step that finds the relevant run completed, whatever its
\* conclusion, clears the timer the poller holds, sets the attempt counter
\* to 0 and sets the status to IDLE.
C22_CompletedRunResetsSession ==
    [][PickedCompletedRun'
         => /\ deploymentPollTimer' = NoRun
            /\ \A i \in intervals' : i.id # deploymentPollTimer
            /\ pollAttempts' = 0
            /\ deploymentStatus' = "IDLE"]_vars

\* C22 (amended): the poll step that finds the relevant run completed,
\* whatever its conclusion, clears the timer the poller holds, sets the
\* status to IDLE and clears the log and the baseline; the attempt counter
\* keeps its value (only the next trigger resets it).
C22_CompletedRunEndsSession ==
    [][PickedCompletedRun'
         => /\ deploymentPollTimer' = NoRun
            /\ \A i \in intervals' : i.id # deploymentPollTimer
            /\ deploymentStatus' = "IDLE"
            /\ deploymentLogs' = << >>
            /\ lastKnownRunId' = NoRun
            /\ pollAttempts' = pollAttempts]_vars

C22_Witness ==
    /\ PickedCompletedRun
    /\ \E r \in PickedRemote : r.conclusion = "failure"
    /\ deploymentStatus = "IDLE"
    /\ deploymentPollTimer = NoRun
    /\ pollAttempts > 1

\* The step evaluated a run list with no relevant run in it while the
\* attempt counter was within the no-workflow threshold.
WaitingEvaluation ==
    /\ lastPoll'.ev = "runs"
    /\ lastPoll'.picked = NoRun
    /\ lastPoll'.attempts <= NoWorkflowCeiling

\* The step began a poll: it counted an attempt and sent the run query.
PollBegan == \E t \in BagToSet(tasks') : t.k = "pollRuns" /\ Started(t)

\* C23: a poll that finds no relevant run while the attempt counter is
\* within the no-workflow threshold changes, of the session, only the
\* attempt counter (by one, when the poll begins): status, log, error,
\* baseline and the timers are unchanged by both of its steps.
C23_WaitingTickChangesOnlyCounter ==
    [][/\ WaitingEvaluation
            => UNCHANGED <<deploymentStatus, deploymentLogs, error,
                           lastKnownRunId, deploymentPollTimer, intervals,
                           pollAttempts>>
       /\ PollBegan
            => /\ pollAttempts' = pollAttempts + 1
               /\ UNCHANGED <<deploymentStatus, deploymentLogs, error,
                              lastKnownRunId, deploymentPollTimer, intervals>>
      ]_vars

C23_Witness ==
    /\ lastPoll.ev = "runs"
    /\ lastPoll.picked = NoRun
    /\ lastPoll.attempts = NoWorkflowCeiling
    /\ pollAttempts = NoWorkflowCeiling
    /\ deploymentStatus = "TRIGGERED"
    /\ error = NULL
    /\ \E i \in intervals : i.id = deploymentPollTimer

\* The latest evaluation picked a run that is queued or in progress.
PickedRunningRun ==
    /\ lastPoll.ev = "runs"
    /\ lastPoll.picked # NoRun
    /\ \E r \in PickedRemote : r.status \in {"queued", "in_progress"}

\* C24: the poll step that finds the relevant run queued or in progress
\* sets the status to IN_PROGRESS, and the step in which a job's log
\* arrives makes the session log exactly the fetched text, whatever the
\* log held before.
C24_RunningRunShowsFetchedLog ==
    [][/\ PickedRunningRun' => deploymentStatus' = "IN_PROGRESS"
       /\ lastPoll'.ev = "logs"
            => \E t \in BagToSet(tasks) :
                  /\ t.k = "pollLogs"
                  /\ Resolved(t)
                  /\ deploymentLogs' = << LogOf(t.runId) >>
      ]_vars

C24_Witness ==
    /\ lastPoll.ev = "logs"
    /\ deploymentStatus = "IN_PROGRESS"
    /\ deploymentLogs = << LogOf(2) >>
    /\ \E j \in 1..Len(workflowRuns) : workflowRuns[j].status = "queued"

\* Positions of the jobs in progress in the list the step received.
InProgressAt(jobs) == {j \in 1..Len(jobs) : jobs[j].status = "in_progress"}

\* The job whose log the code is to fetch for the list jobs; 0 for none.
ExpectedJob(jobs) ==
    IF InProgressAt(jobs) # {} THEN jobs[Min(InProgressAt(jobs))].id
    ELSE IF Len(jobs) > 0 THEN jobs[1].id
    ELSE 0

\* C25: for every job list, the step that receives it requests the log of
\* the first job in progress if there is one, otherwise of the first job
\* of the list, and requests no log for an empty list.
C25_LogOfFirstInProgressJob ==
    [][lastPoll'.ev = "jobs"
         => LET jobs == lastPoll'.jobs IN
            IF jobs = << >>
            THEN \A t \in BagToSet(tasks') : ~ Started(t)
            ELSE /\ \E t \in BagToSet(tasks') :
                      /\ Started(t)
                      /\ t.k = "pollLogs"
                      /\ t.runId = ExpectedJob(jobs)
                 /\ \A t \in BagToSet(tasks') :
                      Started(t) => (t.k = "pollLogs" /\ t.runId = ExpectedJob(jobs))
      ]_vars

C25_Witness ==
    /\ lastPoll.ev = "jobs"
    /\ Len(lastPoll.jobs) = 3
    /\ lastPoll.jobs[1].status = "completed"
    /\ lastPoll.jobs[2].status = "queued"
    /\ lastPoll.jobs[3].status = "in_progress"
    /\ \E t \in BagToSet(tasks) :
          t.k = "pollLogs" /\ t.runId = lastPoll.jobs[3].id

\* The live-url lookup of task t resolved in this step with no url: a
\* request of the resolver failed or was not answered with 200, or no
\* deployment with a success status is registered for the commit.
ResolvedNoUrl(t) ==
    /\ t.k = "urlLookup"
    /\ Resolved(t)
    /\ lastPoll'.ev = "url"
    /\ \/ lastPoll'.outcome # "answered"
       \/ ~ \E x \in deployed : x.repo = t.repo /\ x.sha = t.sha

\* C26: the step in which the live-url lookup after a successful run
\* yields no url stores null as the live url, and changes neither the
\* error nor the status.
C26_NoUrlIsNotAnError ==
    [][\A t \in BagToSet(tasks) : ResolvedNoUrl(t)
          => /\ liveDeploymentUrl' = NoRun
             /\ UNCHANGED <<error, deploymentStatus>>]_vars

C26_Witness ==
    /\ lastPoll.ev = "url"
    /\ lastPoll.outcome = "throws"
    /\ liveDeploymentUrl = NoRun
    /\ deploymentStatus = "IDLE"
    /\ error = NULL
    /\ \E j \in 1..Len(workflowRuns) :
          /\ workflowRuns[j].conclusion = "success"
          /\ [repo |-> workflowRuns[j].repo, sha |-> workflowRuns[j].head_sha]
                \in deployed

\* The deployments created last, among those of the resolved lookup.
MostRecentlyCreated(deployments) ==
    {deployments[i] : i \in {i \in 1..Len(deployments) :
        \A j \in 1..Len(deployments) :
            deployments[j].created_at <= deployments[i].created_at}}

\* The environment urls carried by the success statuses of a deployment.
SuccessUrls(deployment) ==
    {deployment.statuses[k].environment_url :
        k \in {k \in 1..Len(deployment.statuses) :
                  /\ deployment.statuses[k].state = "success"
                  /\ deployment.statuses[k].environment_url # NoRun}}

\* C27: the resolver returns the environment url of a success status of
\* the most recently created deployment, and null exactly when that
\* deployment has no success status that carries an environment url.
C27_UrlOfLatestDeployment ==
    lastPoll.ev = "resolved" =>
        \/ /\ lastPoll.deployments = << >>
           /\ liveDeploymentUrl = NoRun
        \/ \E d \in MostRecentlyCreated(lastPoll.deployments) :
              IF SuccessUrls(d) = {}
              THEN liveDeploymentUrl = NoRun
              ELSE liveDeploymentUrl \in SuccessUrls(d)

\* C28: a step of a poll that changes the status applies all the state
\* changes of that poll execution: no part of the execution is left
\* pending that will change the log later.
C28_PollChangesAtOnce ==
    [][(lastPoll'.ev = "runs" /\ deploymentStatus' # deploymentStatus)
         => \A t \in BagToSet(tasks') :
               ~ (Started(t) /\ t.k \in PollFetches)]_vars

\* C29: an interval timer is live only while the status is TRIGGERED or
\* IN_PROGRESS.
C29_TimerOnlyWhileDeploying == intervals # {} => isDeploying

\* The baseline query or the dispatch of session s failed in this step.
TriggerFailed(s) ==
    calls[s].trigger = "pending" /\ calls'[s].trigger = "failed"

PollKinds == {"initDelay", "pollRuns", "pollJobs", "pollLogs", "settle",
              "urlLookup"}

\* C30: the step in which the baseline query or the dispatch of a trigger
\* fails sets the status to FAILED, records the error, clears the baseline
\* and schedules neither the delayed poll nor the interval; and no delayed
\* poll, interval or poll request ever exists for a trigger that failed or
\* that is still waiting for its dispatch.
C30_FailedTriggerNeverPolls ==
    [][/\ \A s \in 1..Len(calls) : TriggerFailed(s)
            => /\ deploymentStatus' = "FAILED"
               /\ error' \in FetchErrors \cup DispatchErrors
               /\ lastKnownRunId' = NoRun
               /\ UNCHANGED <<intervals, deploymentPollTimer, pollAttempts>>
               /\ \A t \in BagToSet(tasks') : ~ Started(t)
       /\ \A t \in BagToSet(tasks') :
            t.k \in PollKinds => calls'[t.sess].trigger = "sent"
       /\ \A i \in intervals' : calls'[i.cl.sess].trigger = "sent"
      ]_vars

C30_Witness ==
    /\ Len(calls) = 2
    /\ calls[1].trigger = "failed"
    /\ calls[2].trigger = "failed"
    /\ calls[2].dispatch = 1
    /\ deploymentStatus = "FAILED"
    /\ error \in DispatchErrors
    /\ lastKnownRunId = NoRun
    /\ intervals = {}
    /\ tasks = EmptyBag

\* C31: no poll counts an attempt or sends its run query while the status
\* is IDLE.
C31_IdleTickIsNoOp ==
    [][(PollBegan \/ pollAttempts' = pollAttempts + 1)
         => deploymentStatus # "IDLE"]_vars


\* A session of the selection shown still has a trigger request awaited, a
\* first-poll timeout pending, a poll request awaited or a live timer.
ActiveSessionOfSelection ==
    \/ \E t \in BagToSet(tasks) :
          /\ t.sess >= 1
          /\ t.repo = repo
          /\ t.branch = selectedBranch
    \/ \E i \in intervals :
          /\ i.cl.repo = repo
          /\ i.cl.branch = selectedBranch

\* C32: handleDeploy starts only with a branch selected and the status
\* neither TRIGGERED nor IN_PROGRESS, and never while a session of the
\* selection shown is still active.
C32_NoTriggerWhileSessionActive ==
    [][Len(calls') > Len(calls)
         => /\ selectedBranch # NULL
            /\ ~isDeploying
            /\ ~ActiveSessionOfSelection]_vars


\* C33: the stored baseline is none after every step that ends a session
\* or changes the selection, and none when a trigger starts, so that the
\* polls of a session never compare against a baseline left by an earlier
\* session or selection.
C33_BaselineClearedBetweenSessions ==
    [][/\ ((isDeploying /\ deploymentStatus' \in {"FAILED", "SUCCESS"})
            \/ repo' # repo
            \/ selectedBranch' # selectedBranch)
           => lastKnownRunId' = NoRun
       /\ Len(calls') > Len(calls) => lastKnownRunId = NoRun]_vars


\* Requests of handleRepoChange / handleBranchChange (and of the fetchRepos
\* effect that calls handleRepoChange).
SelectionFetches == {"repos", "branches", "tree", "branchRuns", "branchUrl"}

\* C34: once every request of the selections made has resolved (none
\* failed, no deployment was triggered), the branch, the run list and the
\* live url shown are those of the repository selected last.
C34_LastSelectionShown ==
    (/\ LoggedIn
     /\ selectedRepo # NULL
     /\ selectedBranch # NULL
     /\ error = NULL
     /\ calls = << >>
     /\ ~ \E t \in BagToSet(tasks) : t.k \in SelectionFetches)
       => /\ selectedBranch = PickBranch(BranchesOf(selectedRepo))
          /\ workflowRuns = GetWorkflowRuns(selectedRepo, selectedBranch)
          /\ liveDeploymentUrl # NoRun
                => \E x \in deployed : /\ x.repo = selectedRepo
                                       /\ UrlOf(x.sha) = liveDeploymentUrl


\* C35: when the branch listing of a selected repository has succeeded
\* (every repository lists at least one branch), the selected branch is
\* 'main' if listed, else 'master' if listed, else the first branch, and
\* the loading of that branch's tree and run list has begun.
C35_DefaultBranchSelected ==
    [][\A t \in BagToSet(tasks) :
          (t.k = "branches" /\ Resolved(t) /\ error' \notin FetchErrors)
             => /\ selectedBranch' = PickBranch(BranchesOf(t.target))
                /\ \E u \in BagToSet(tasks') :
                      /\ u.k = "tree"
                      /\ Started(u)
                      /\ u.target = t.target
                      /\ u.branch = selectedBranch']_vars


\* C36: the live-url lookup of a repository change is sent for the
\* repository whose runs were listed, the one newly selected.
C36_UrlLookupOfListedRepo ==
    [][\A t \in BagToSet(tasks') :
          (t.k = "branchUrl" /\ Started(t)) => t.repo = t.target]_vars


\* ------------------------------ the project list: import and template

\* projects.some(p => p.id === id)
HasProject(list, id) == \E i \in 1..Len(list) : list[i].id = id

\* The awaits of handleDeployTemplate: forkRepo, the 3 s pause, fetchRepos.
TemplateKinds == {"fork", "forkWait", "forkRepos"}

\* isLoading['deployTemplate']: set on entry, cleared by the finally.
LoadingDeployTemplate == \E t \in BagToSet(tasks) : t.k \in TemplateKinds

\* A suspended handleDeployTemplate: the owner/repo and the projects of the
\* render that created it, and the repository forkRepo answered with.
TemplateTask(k, closRepo, closProjects, newRepo) ==
    [k |-> k, repo |-> closRepo, branch |-> NULL, status |-> NULL,
     baseline |-> NoRun, rec |-> NoRun, sess |-> 0, runId |-> NoRun,
     sha |-> NoRun, target |-> newRepo, projects |-> closProjects]

\* Project lists without a repeated id.
ProjectLists ==
    { l \in UNION { [1..n -> {GithubRepo(r) : r \in Repos}] :
                      n \in 0..Cardinality(Repos) } :
        \A i, j \in 1..Len(l) : i # j => l[i].id # l[j].id }

\* Logged in, on the dashboard, the repositories of the account fetched;
\* owner/repo still hold the project opened last, if one was opened.
InitProjects ==
    /\ githubToken = TRUE /\ user = TRUE /\ storedToken = TRUE
    /\ projects \in ProjectLists
    /\ selectedRepo = NULL
    /\ repo \in {NULL} \cup {r \in Repos : HasProject(projects, RepoId(r))}
    /\ selectedBranch = IF repo = NULL THEN NULL ELSE PickBranch(BranchesOf(repo))
    /\ deploymentStatus = "IDLE"
    /\ workflowRuns = << >>
    /\ deploymentLogs = << >>
    /\ liveDeploymentUrl = NoRun
    /\ lastKnownRunId = NoRun
    /\ error = NULL
    /\ pollAttempts = 0
    /\ deploymentPollTimer = NoRun
    /\ intervals = {}
    /\ nextTimer = 1
    /\ tasks = EmptyBag
    /\ serverRuns = << MkRun(1, "A", "main", "completed", "success") >>
    /\ pendingDispatch = EmptyBag
    /\ deployed = {[repo |-> "A", sha |-> HeadSha(1)]}
    /\ clicks = 0
    /\ lastPoll = NoPoll
    /\ calls = << >>

\* ImportProjectModal (opened from the dashboard; it lists the repositories
\* of the account that are not in projects) and handleAddProject.
AddProjectClick(r) ==
    /\ LoggedIn
    /\ selectedRepo = NULL
    /\ r \in Repos
    /\ ~ HasProject(projects, RepoId(r))
    /\ clicks < MaxSelects
    /\ InFlight < MaxTasks
    /\ clicks' = clicks + 1
    /\ projects' = IF ~ HasProject(projects, RepoId(r))
                   THEN Append(projects, GithubRepo(r))
                   ELSE projects
    /\ HandleRepoChange(r, repo, tasks)
    /\ UNCHANGED <<githubToken, user, storedToken, selectedBranch,
                   lastKnownRunId, error, timerVars, remoteVars, calls>>
    /\ lastPoll' = NoPoll

\* TemplateModal (opened from the dashboard; its button is disabled while
\* a template is being deployed): handleDeployTemplate up to forkRepo.
DeployTemplateClick ==
    /\ LoggedIn
    /\ selectedRepo = NULL
    /\ ~ LoadingDeployTemplate
    /\ clicks < MaxSelects
    /\ InFlight < MaxTasks
    /\ clicks' = clicks + 1
    /\ error' = NULL
    /\ tasks' = Spawn(tasks, TemplateTask("fork", repo, projects, NULL))
    /\ UNCHANGED <<uiVars, deploymentStatus, workflowRuns, deploymentLogs,
                   liveDeploymentUrl, lastKnownRunId, timerVars, remoteVars,
                   calls>>
    /\ lastPoll' = NoPoll

\* forkRepo resolves with the fork (the one the account already holds, if
\* the template was forked before) or throws.
ForkDone(t) ==
    /\ BagIn(t, tasks) /\ t.k = "fork"
    /\ \/ /\ \E r \in Repos :
                tasks' = Spawn(Retire(tasks, t),
                               [t EXCEPT !.k = "forkWait", !.target = r])
          /\ UNCHANGED error
       \/ /\ \E e \in FetchErrors : error' = e
          /\ tasks' = Retire(tasks, t)
    /\ UNCHANGED <<uiVars, deploymentStatus, workflowRuns, deploymentLogs,
                   liveDeploymentUrl, lastKnownRunId, timerVars, remoteVars,
                   clicks, calls>>
    /\ lastPoll' = NoPoll

\* The 3 s pause is over: fetchRepos is sent.
ForkWaitFire(t) ==
    /\ BagIn(t, tasks) /\ t.k = "forkWait"
    /\ tasks' = Spawn(Retire(tasks, t), [t EXCEPT !.k = "forkRepos"])
    /\ UNCHANGED <<uiVars, deployVars, timerVars, remoteVars, clicks, calls>>
    /\ lastPoll' = NoPoll

\* if (!projects.some(p => p.id === newRepo.id))
\*     setProjects(prev => [...prev, newRepo]);
\* the test reads the projects of the closure, the append the current list.
TemplateAppend(t) ==
    projects' = IF ~ HasProject(t.projects, RepoId(t.target))
                THEN Append(projects, GithubRepo(t.target))
                ELSE projects

\* handleDeployTemplate after fetchRepos.
ForkReposDone(t) ==
    /\ BagIn(t, tasks) /\ t.k = "forkRepos"
    /\ \/ /\ TemplateAppend(t)
          /\ HandleRepoChange(t.target, t.repo, Retire(tasks, t))
          /\ UNCHANGED error
       \/ /\ \E e \in FetchErrors : error' = e
          /\ tasks' = Retire(tasks, t)
          /\ UNCHANGED <<projects, selectedRepo, repo, deploymentStatus,
                         workflowRuns, liveDeploymentUrl, deploymentLogs>>
    /\ UNCHANGED <<githubToken, user, storedToken, selectedBranch,
                   lastKnownRunId, timerVars, remoteVars, clicks, calls>>
    /\ lastPoll' = NoPoll

NextProjects ==
    \/ \E r \in Repos : AddProjectClick(r)
    \/ DeployTemplateClick
    \/ LogoClick
    \/ \E t \in BagToSet(tasks) : ForkDone(t)
    \/ \E t \in BagToSet(tasks) : ForkWaitFire(t)
    \/ \E t \in BagToSet(tasks) : ForkReposDone(t)
    \/ \E t \in BagToSet(tasks) : BranchesDone(t)
    \/ \E t \in BagToSet(tasks) : TreeDone(t)
    \/ \E t \in BagToSet(tasks) : BranchRunsDone(t)
    \/ \E t \in BagToSet(tasks) : BranchUrlDone(t)

SpecProjects == InitProjects /\ [][NextProjects]_vars

\* C37: the project list holds no two entries with the same repository id.
C37_NoDuplicateProjects ==
    \A i, j \in 1..Len(projects) :
        i # j => projects[i].id # projects[j].id

====
